---------------------------- MODULE Spec2Model ----------------------------
(***************************************************************************)
(* A model of py_meta_utils: the Singleton metaclass registry and the      *)
(* class Meta options factory (MetaOption, AbstractMetaOption,             *)
(* MetaOptionsFactory, process_factory_meta_options, deep_getattr).        *)
(*                                                                         *)
(* Python values are modelled as strings ("True", "False", "garbage",      *)
(* "1", ...), dictionaries as functions whose domain is the set of keys.   *)
(***************************************************************************)
EXTENDS Integers, Sequences, FiniteSets, TLC

VARIABLES
    _classes,     \* Singleton._classes: class -> designated class
    _instances,   \* Singleton._instances: class -> its instance
    constructed,  \* how many times type.__call__ built an instance of each class
    calls,        \* the operations performed so far, with what each returned
    classes,      \* the classes constructed so far by the consumer metaclass
    last,         \* the latest class statement: what was declared, what came of it
    probe,        \* the latest call of a helper: its arguments and its result
    run           \* the _contribute_to_class call in progress, step by step

singletonVars == <<_classes, _instances, constructed, calls>>

metaVars == <<classes, last>>

probeVars == <<probe, run>>

vars == <<_classes, _instances, constructed, calls, classes, last, probe, run>>

(***************************************************************************)
(* Bounds                                                                  *)
(***************************************************************************)
MaxCalls == 4
MaxMetaKeys == 2

(***************************************************************************)
(* The singleton hierarchy of the tests:                                   *)
(*   class Single(metaclass=Singleton); class Second(Single);              *)
(*   class Third(Second)                                                   *)
(***************************************************************************)
SingletonClasses == {"Single", "Second", "Third"}

SingletonBase ==
    [k \in SingletonClasses |->
        CASE k = "Single" -> "object"
          [] k = "Second" -> "Single"
          [] k = "Third"  -> "Second"]

\* cls.__mro__ of a class of the (single-inheritance) hierarchy, object included
RECURSIVE __mro__(_)
__mro__(k) ==
    IF k = "object" THEN <<"object">> ELSE <<k>> \o __mro__(SingletonBase[k])

Range(s) == {s[i] : i \in 1..Len(s)}

EmptyDict == [k \in {} |-> "None"]

\* d[key] = value for every key of keys, as a loop of dictionary stores does
SetAll(d, keys, value) ==
    [k \in DOMAIN d \cup keys |-> IF k \in keys THEN value ELSE d[k]]

NoInstance == [cls |-> "None", id |-> 0]

\* super().__call__(): a new object of class cls; id tells objects apart
NewInstance(cls, made) == [cls |-> cls, id |-> made + 1]

SumOver(f) ==
    LET RECURSIVE S(_)
        S(D) == IF D = {} THEN 0
                ELSE LET k == CHOOSE x \in D : TRUE IN f[k] + S(D \ {k})
    IN S(DOMAIN f)

\* The registry: [classes, instances, constructed]
Registry == [classes |-> _classes, instances |-> _instances,
             constructed |-> constructed]

\* faulty variant: only the class itself is designated, its bases are not
set_singleton_class_self_only(reg, self, cls) ==
    IF self \in DOMAIN reg.classes
    THEN [reg |-> reg, warned |-> 1]
    ELSE [reg |-> [reg EXCEPT !.classes =
                      SetAll(SetAll(reg.classes, {self}, cls), {cls}, cls)],
          warned |-> 0]

\* Singleton.set_singleton_class(self, cls): the registry after it, and the
\* number of UserWarnings it emitted
set_singleton_class(reg, self, cls) ==
    IF self \in DOMAIN reg.classes
    THEN [reg |-> reg, warned |-> 1]
    ELSE [reg |-> [reg EXCEPT !.classes =
                      SetAll(SetAll(reg.classes, Range(__mro__(self)), cls),
                             {cls}, cls)],
          warned |-> 0]

\* faulty variant: the cached instance is not looked at, a new one is built every time
Singleton_call_no_cache(reg, cls) ==
    LET r1  == IF cls \notin DOMAIN reg.classes
               THEN set_singleton_class(reg, cls, cls).reg ELSE reg
        c   == r1.classes[cls]
        obj == NewInstance(c, SumOver(r1.constructed))
        r2  == [r1 EXCEPT !.instances = SetAll(r1.instances, {c}, obj),
                          !.constructed = [r1.constructed EXCEPT ![c] = @ + 1]]
    IN [reg |-> r2, ret |-> r2.instances[c]]

\* Singleton.__call__(cls): the registry after it, and the object returned
Singleton_call(reg, cls) ==
    LET r1  == IF cls \notin DOMAIN reg.classes
               THEN set_singleton_class(reg, cls, cls).reg ELSE reg
        c   == r1.classes[cls]
        r2  == IF c \notin DOMAIN r1.instances
               THEN [r1 EXCEPT
                       !.instances = SetAll(r1.instances, {c},
                                        NewInstance(c, SumOver(r1.constructed))),
                       !.constructed = [r1.constructed EXCEPT ![c] = @ + 1]]
               ELSE r1
    IN [reg |-> r2, ret |-> r2.instances[c]]

\* the instance self() would return from the cache as it is: the instance of
\* the class designated for self, NoInstance when there is none yet
Designated(reg, self) ==
    IF self \in DOMAIN reg.classes /\ reg.classes[self] \in DOMAIN reg.instances
    THEN reg.instances[reg.classes[self]]
    ELSE NoInstance


(***************************************************************************)
(* Python values of the class Meta machinery.  Every value is a record     *)
(* [t, s, attrs, keys]: t its type, s its scalar content, attrs its        *)
(* attribute dictionary (name -> scalar) and keys the insertion order of   *)
(* attrs.                                                                  *)
(***************************************************************************)
NoAttrs == [k \in {} |-> "None"]

Scalar(x) == [t |-> "scalar", s |-> x, attrs |-> NoAttrs, keys |-> <<>>]

None == [t |-> "None", s |-> "None", attrs |-> NoAttrs, keys |-> <<>>]

_missing == [t |-> "_missing", s |-> "_missing", attrs |-> NoAttrs, keys |-> <<>>]

AttributeError == [t |-> "AttributeError", s |-> "", attrs |-> NoAttrs, keys |-> <<>>]

\* a declared `class Meta:` with its attributes in declaration order
MetaClass(attrs, keys) == [t |-> "Meta", s |-> "Meta", attrs |-> attrs, keys |-> keys]

\* a MetaOptionsFactory subclass, by name
FactoryClass(name) == [t |-> "factory_class", s |-> name, attrs |-> NoAttrs, keys |-> <<>>]

\* an instance of the factory class fcls carrying attrs
FactoryInstance(fcls, attrs, keys) ==
    [t |-> "factory", s |-> fcls, attrs |-> attrs, keys |-> keys]

\* the factory instance being populated, as the namespace refers to it
Self == [t |-> "self", s |-> "self", attrs |-> NoAttrs, keys |-> <<>>]

ABSTRACT_ATTR == "__abstract__"

META_OPTIONS_FACTORY_CLASS_ATTR_NAME == "_meta_options_factory_class"

DictSet(d, k, v) == [x \in DOMAIN d \cup {k} |-> IF x = k THEN v ELSE d[x]]

DictPop(d, k) == [x \in DOMAIN d \ {k} |-> d[x]]

\* dict.get(k, default)
DictGet(d, k, default) == IF k \in DOMAIN d THEN d[k] ELSE default

(***************************************************************************)
(* The option schemas.  YourMetaOptionsFactory and FooMetaOptionsFactory   *)
(* follow the docstring of process_factory_meta_options; one and two are   *)
(* the options of the tests; "_" is an option that stores nothing.         *)
(***************************************************************************)
MetaOption(name, default, inherit) ==
    [cls |-> "MetaOption", name |-> name, default |-> default, inherit |-> inherit]

AbstractMetaOption ==
    [cls |-> "AbstractMetaOption", name |-> "abstract", default |-> "False",
     inherit |-> FALSE]

YourOptions ==
    <<AbstractMetaOption, MetaOption("one", "1", FALSE), MetaOption("two", "2", TRUE)>>

\* factory_cls()._get_meta_options()
_get_meta_options(fcls) ==
    IF fcls = "FooMetaOptionsFactory"
    THEN YourOptions \o <<MetaOption("foo", "None", TRUE), MetaOption("_", "None", FALSE)>>
    ELSE YourOptions

\* what a MetaOptionsFactory instance has besides the option values
FactoryMembers ==
    {"_mcs_args", "_options", "_get_meta_options", "_contribute_to_class",
     "_fill_from_meta"}

(***************************************************************************)
(* Constructed classes: [name, bases, dict].  bases are indices into the    *)
(* sequence of classes; object is left implicit.                           *)
(***************************************************************************)
RECURSIVE Merge(_)
\* the C3 merge of type.mro(); <<0>> marks an inconsistent hierarchy
Merge(seqs) ==
    LET ne == SelectSeq(seqs, LAMBDA q : q # <<>>) IN
    IF ne = <<>> THEN <<>>
    ELSE LET good == {i \in 1..Len(ne) :
                         \A j \in 1..Len(ne) : Head(ne[i]) \notin Range(Tail(ne[j]))}
         IN IF good = {} THEN <<0>>
            ELSE LET i == CHOOSE x \in good : \A y \in good : x <= y
                     h == Head(ne[i])
                     rest == Merge([j \in 1..Len(ne) |->
                                IF Head(ne[j]) = h THEN Tail(ne[j]) ELSE ne[j]])
                 IN <<h>> \o rest

RECURSIVE Mro(_, _)
\* the __mro__ of the constructed class k (without object)
Mro(cs, k) ==
    LET bases == cs[k].bases IN
    <<k>> \o Merge([i \in 1..Len(bases) |-> Mro(cs, bases[i])] \o <<bases>>)

\* whether type.__new__ accepts these bases
BasesOk(cs, bases) ==
    0 \notin Range(Merge([i \in 1..Len(bases) |-> Mro(cs, bases[i])] \o <<bases>>))

\* getattr(cls, name, default) on a constructed class
getattr(cs, k, name, default) ==
    LET mro == Mro(cs, k)
        hits == {i \in 1..Len(mro) : name \in DOMAIN cs[mro[i]].dict}
    IN IF hits = {} THEN default
       ELSE cs[mro[CHOOSE i \in hits : \A j \in hits : i <= j]].dict[name]

\* faulty variant: the base classes are searched before the class dictionary
deep_getattr_bases_first(cs, clsdict, bases, name, default) ==
    LET value == DictGet(clsdict, name, _missing)
        hits == {i \in 1..Len(bases) : getattr(cs, bases[i], name, _missing) # _missing}
    IN IF hits # {}
       THEN getattr(cs, bases[CHOOSE i \in hits : \A j \in hits : i <= j],
                    name, _missing)
       ELSE IF value # _missing THEN value
            ELSE IF default # _missing THEN default
                 ELSE AttributeError

\* deep_getattr(clsdict, bases, name, default)
deep_getattr(cs, clsdict, bases, name, default) ==
    LET value == DictGet(clsdict, name, _missing)
        hits == {i \in 1..Len(bases) : getattr(cs, bases[i], name, _missing) # _missing}
    IN IF value # _missing THEN value
       ELSE IF hits # {}
            THEN getattr(cs, bases[CHOOSE i \in hits : \A j \in hits : i <= j],
                         name, _missing)
            ELSE IF default # _missing THEN default
                 ELSE AttributeError

\* getattr(obj, name, default) on a Meta class or a factory instance
getattr_value(obj, name, default) ==
    IF name \in DOMAIN obj.attrs THEN obj.attrs[name] ELSE default

\* faulty variant: the value of a base class is taken whatever self.inherit says
MetaOption_get_value_always_inherits(option, Meta, base_classes_meta) ==
    LET v0 == option.default
        v1 == IF base_classes_meta # None
              THEN getattr_value(base_classes_meta, option.name, v0) ELSE v0
    IN IF Meta # None THEN getattr_value(Meta, option.name, v1) ELSE v1

\* MetaOption.get_value
MetaOption_get_value(option, Meta, base_classes_meta) ==
    LET v0 == option.default
        v1 == IF option.inherit /\ base_classes_meta # None
              THEN getattr_value(base_classes_meta, option.name, v0) ELSE v0
    IN IF Meta # None THEN getattr_value(Meta, option.name, v1) ELSE v1

\* `x is True` as a Python bool
IsTrue(x) == IF x = "True" THEN "True" ELSE "False"

\* AbstractMetaOption.get_value
AbstractMetaOption_get_value(option, Meta, base_classes_meta, clsdict) ==
    IF DictGet(clsdict, ABSTRACT_ATTR, Scalar("False")) = Scalar("True")
    THEN "True"
    ELSE IsTrue(MetaOption_get_value(option, Meta, base_classes_meta))

get_value(option, Meta, base_classes_meta, clsdict) ==
    IF option.cls = "AbstractMetaOption"
    THEN AbstractMetaOption_get_value(option, Meta, base_classes_meta, clsdict)
    ELSE MetaOption_get_value(option, Meta, base_classes_meta)

\* check_value: the exception it raises, "None" when it returns
check_value(option, value) ==
    IF option.cls = "AbstractMetaOption" /\ value \notin {"True", "False"}
    THEN "TypeError" ELSE "None"

\* contribute_to_class: the namespace after it
contribute_to_class(option, clsdict, value) ==
    IF option.cls = "AbstractMetaOption"
    THEN DictSet(clsdict, ABSTRACT_ATTR, Scalar(IsTrue(value)))
    ELSE clsdict

\* the names this model's classes use, in sorted() order
Alphabet == <<"_", "_private", "abstract", "fail", "foo", "one", "two">>

\* faulty variant: the keys are listed in dictionary order
unsorted(keys) == keys

\* sorted(keys)
sorted(keys) == SelectSeq(Alphabet, LAMBDA k : k \in Range(keys))

\* k.startswith('_'), over the names this model's classes use
StartsWithUnderscore(k) ==
    k \in {"_", "_private", "_allowed", "_allowed_properties", "__module__",
           "__qualname__"}

NoError == [exc |-> "None", cls |-> "", attrs |-> <<>>, msg |-> ""]

\* one iteration of the loop of _fill_from_meta; st = [self, meta_attrs, err]
\* with self the factory instance and meta_attrs the keys not yet matched
_fill_option(st, option, Meta, base_classes_meta, clsdict) ==
    IF st.err # NoError THEN st
    ELSE IF option.name \in DOMAIN st.self.attrs \cup FactoryMembers
    THEN [st EXCEPT !.err = [exc |-> "AssertionError", cls |-> "", attrs |-> <<>>,
                             msg |-> "Can't override field"]]
    ELSE LET value == get_value(option, Meta, base_classes_meta, clsdict) IN
         IF check_value(option, value) # "None"
         THEN [st EXCEPT !.err = [exc |-> "TypeError", cls |-> "", attrs |-> <<>>,
                   msg |-> "The abstract Meta option must be either True or False"]]
         ELSE [self |-> IF option.name # "_"
                        THEN FactoryInstance(st.self.s,
                                 DictSet(st.self.attrs, option.name, value),
                                 Append(st.self.keys, option.name))
                        ELSE st.self,
               meta_attrs |-> SelectSeq(st.meta_attrs, LAMBDA k : k # option.name),
               err |-> NoError]

RECURSIVE _fill_options(_, _, _, _, _, _)
\* the loop of _fill_from_meta over the first n options
_fill_options(st, options, n, Meta, base_classes_meta, clsdict) ==
    IF n = 0 THEN st
    ELSE _fill_option(_fill_options(st, options, n - 1, Meta, base_classes_meta, clsdict),
                      options[n], Meta, base_classes_meta, clsdict)

\* MetaOptionsFactory._fill_from_meta: [self, err]
_fill_from_meta(self, Meta, base_classes_meta, name, clsdict) ==
    LET meta_attrs == IF Meta = None THEN <<>>
                      ELSE SelectSeq(Meta.keys, LAMBDA k : ~StartsWithUnderscore(k))
        options == _get_meta_options(self.s)
        st == _fill_options([self |-> self, meta_attrs |-> meta_attrs, err |-> NoError],
                            options, Len(options), Meta, base_classes_meta, clsdict)
    IN IF st.err # NoError THEN [self |-> st.self, err |-> st.err]
       ELSE IF st.meta_attrs # <<>>
            THEN [self |-> st.self,
                  err |-> [exc |-> "TypeError", cls |-> name,
                           attrs |-> sorted(st.meta_attrs),
                           msg |-> "class Meta got unknown attribute(s)"]]
            ELSE [self |-> st.self, err |-> NoError]

RECURSIVE _contribute_options(_, _, _, _)
\* the loop of _contribute_to_class over the first n options: the namespace
_contribute_options(self, options, n, clsdict) ==
    IF n = 0 THEN clsdict
    ELSE contribute_to_class(options[n],
             _contribute_options(self, options, n - 1, clsdict),
             getattr_value(self, options[n].name, "None"))

\* the namespace with its reference to the factory instance made explicit
Resolve(clsdict, self) ==
    [k \in DOMAIN clsdict |-> IF clsdict[k] = Self THEN self ELSE clsdict[k]]

\* faulty variant: the namespace's Meta is not replaced by the factory instance
_contribute_to_class_no_replace(cs, fcls, name, bases, clsdict) ==
    LET Meta == DictGet(clsdict, "Meta", None)
        d1 == DictPop(clsdict, "Meta")
        base_classes_meta == deep_getattr(cs, d1, bases, "Meta", None)
        d2 == d1
        filled == _fill_from_meta(FactoryInstance(fcls, NoAttrs, <<>>), Meta,
                                  base_classes_meta, name, d2)
        options == _get_meta_options(fcls)
    IN IF filled.err # NoError
       THEN [clsdict |-> Resolve(d2, filled.self), self |-> filled.self,
             err |-> filled.err]
       ELSE [clsdict |-> Resolve(_contribute_options(filled.self, options,
                                     Len(options), d2), filled.self),
             self |-> filled.self, err |-> NoError]

\* MetaOptionsFactory._contribute_to_class: [clsdict, self, err]
_contribute_to_class(cs, fcls, name, bases, clsdict) ==
    LET Meta == DictGet(clsdict, "Meta", None)
        d1 == DictPop(clsdict, "Meta")
        base_classes_meta == deep_getattr(cs, d1, bases, "Meta", None)
        d2 == DictSet(d1, "Meta", Self)
        filled == _fill_from_meta(FactoryInstance(fcls, NoAttrs, <<>>), Meta,
                                  base_classes_meta, name, d2)
        options == _get_meta_options(fcls)
    IN IF filled.err # NoError
       THEN [clsdict |-> Resolve(d2, filled.self), self |-> filled.self,
             err |-> filled.err]
       ELSE [clsdict |-> Resolve(_contribute_options(filled.self, options,
                                     Len(options), d2), filled.self),
             self |-> filled.self, err |-> NoError]

\* process_factory_meta_options(mcs_args, default_factory_class)
process_factory_meta_options(cs, name, bases, clsdict, default_factory_class) ==
    LET factory_cls == deep_getattr(cs, clsdict, bases,
                                    META_OPTIONS_FACTORY_CLASS_ATTR_NAME,
                                    FactoryClass(default_factory_class))
    IN _contribute_to_class(cs, factory_cls.s, name, bases, clsdict)

(***************************************************************************)
(* The class statements the model runs                                     *)
(***************************************************************************)
\* the classes the model declares, in this order: a class and a later one that
\* may derive from it
ClassNames == <<"Base", "Foobar">>

\* the keys a declared class Meta may have, in the order it declares them
DeclOrder == <<"two", "one", "foo", "fail", "abstract", "_private">>

MetaValue(k) ==
    CASE k = "two" -> "20"
      [] k = "one" -> "100"
      [] k = "foo" -> "bar"
      [] OTHER -> "x"

MetaBlocks ==
    {MetaClass([k \in K |-> IF k = "abstract" THEN a ELSE MetaValue(k)],
               SelectSeq(DeclOrder, LAMBDA k : k \in K)) :
        K \in {X \in SUBSET Range(DeclOrder) : Cardinality(X) <= MaxMetaKeys},
        a \in {"True", "False", "garbage"}}

\* the namespaces of the class statements: each of __abstract__, Meta and
\* _meta_options_factory_class is declared or not
Namespaces ==
    {[k \in K |-> CASE k = ABSTRACT_ATTR -> Scalar(flag)
                    [] k = "Meta" -> meta
                    [] OTHER -> FactoryClass("FooMetaOptionsFactory")] :
        K \in SUBSET {ABSTRACT_ATTR, "Meta", META_OPTIONS_FACTORY_CLASS_ATTR_NAME},
        flag \in {"True", "False", "garbage"},
        meta \in MetaBlocks}

BasesChoices ==
    {<<>>} \cup {<<b>> : b \in 1..Len(classes)}
           \cup {q \in {<<a, b>> : a \in 1..Len(classes), b \in 1..Len(classes)} :
                    q[1] # q[2] /\ BasesOk(classes, q)}

\* no class statement is running
Idle == [name |-> "", bases |-> <<>>, declared |-> [k \in {} |-> None],
         clsdict |-> [k \in {} |-> None], self |-> None, err |-> NoError,
         built |-> FALSE]

\* an empty class dictionary
NoDict == [k \in {} |-> None]

\* no helper called yet
NoProbe == [fn |-> "None"]

\* no _contribute_to_class call in progress
NoRun == [pc |-> "idle"]

\* faulty variant: a flag that is not True lets the Meta decide
is_abstract_flag_or_meta(clsdict) ==
    LET Meta == DictGet(clsdict, "Meta", None)
        meta_value == getattr_value(Meta, "abstract", "False")
    IN IF DictGet(clsdict, ABSTRACT_ATTR, Scalar("False")).s = "True" THEN "True"
       ELSE IsTrue(meta_value)

\* McsArgs.is_abstract, for the namespace clsdict: "True" or "False"
is_abstract(clsdict) ==
    LET Meta == DictGet(clsdict, "Meta", None)
        meta_value == getattr_value(Meta, "abstract", "False")
    IN IsTrue(DictGet(clsdict, ABSTRACT_ATTR, Scalar(meta_value)).s)

\* no singleton class designated or instantiated, no class statement run
Init ==
    /\ _classes = EmptyDict
    /\ _instances = [k \in {} |-> NoInstance]
    /\ constructed = [k \in SingletonClasses |-> 0]
    /\ calls = <<>>
    /\ classes = <<>>
    /\ last = Idle
    /\ probe = NoProbe
    /\ run = NoRun

\* class name(*bases, metaclass=YourMetaclass): ... with YourMetaclass.__new__
\* calling process_factory_meta_options and then type.__new__
ClassStatement(bases, clsdict) ==
    /\ last = Idle
    /\ Len(classes) < Len(ClassNames)
    /\ LET name == ClassNames[Len(classes) + 1]
           r == process_factory_meta_options(classes, name, bases, clsdict,
                                             "YourMetaOptionsFactory")
       IN /\ last' = [name |-> name, bases |-> bases, declared |-> clsdict,
                      clsdict |-> r.clsdict, self |-> r.self, err |-> r.err,
                      built |-> (r.err = NoError)]
          /\ classes' = IF r.err = NoError
                        THEN Append(classes, [name |-> name, bases |-> bases,
                                              dict |-> r.clsdict])
                        ELSE classes
    /\ UNCHANGED <<singletonVars, probeVars>>

\* the class statement is over: its McsArgs and what it raised are dropped
Discard ==
    /\ last # Idle
    /\ last' = Idle
    /\ UNCHANGED <<classes, singletonVars, probeVars>>

MetaNext ==
    \/ \E bases \in BasesChoices, clsdict \in Namespaces :
          ClassStatement(bases, clsdict)
    \/ Discard

MetaSpec == Init /\ [][MetaNext]_vars


\* R.set_singleton_class(C)
SetSingletonClass(self, cls) ==
    /\ Len(calls) < MaxCalls
    /\ LET r == set_singleton_class(Registry, self, cls) IN
        /\ _classes' = r.reg.classes
        /\ _instances' = r.reg.instances
        /\ constructed' = r.reg.constructed
        /\ calls' = Append(calls,
               [op |-> "set", self |-> self, cls |-> cls, ret |-> NoInstance,
                warned |-> r.warned, cur |-> Designated(Registry, self),
                changed |-> (r.reg # Registry)])
    /\ UNCHANGED <<metaVars, probeVars>>

\* K()
Call(cls) ==
    /\ Len(calls) < MaxCalls
    /\ LET r == Singleton_call(Registry, cls) IN
        /\ _classes' = r.reg.classes
        /\ _instances' = r.reg.instances
        /\ constructed' = r.reg.constructed
        /\ calls' = Append(calls,
               [op |-> "call", self |-> cls, cls |-> cls, ret |-> r.ret,
                warned |-> 0, cur |-> Designated(Registry, cls),
                changed |-> (r.reg # Registry)])
    /\ UNCHANGED <<metaVars, probeVars>>

(***************************************************************************)
(* deep_getattr on plain classes: classes made by type(name, bases, dict)  *)
(* with at most the attribute hi, as in TestDeepGetattr                    *)
(***************************************************************************)
\* the names of the classes that are made, in the order they are made
DeepNames == <<"Base", "Hi", "Left">>

\* the class dictionaries: hi is not defined, or has one of two values
DeepDicts ==
    {NoDict} \cup {[k \in {"hi"} |-> Scalar(v)] : v \in {"hello", "from base"}}

\* the tuples of bases: up to two of the classes made so far
DeepBases ==
    {<<>>} \cup {<<b>> : b \in 1..Len(classes)}
           \cup {q \in {<<a, b>> : a \in 1..Len(classes), b \in 1..Len(classes)} :
                    q[1] # q[2]}

\* type(name, bases, clsdict): a class is made when the bases have an MRO
TypeNew(bases, clsdict) ==
    /\ probe = NoProbe
    /\ Len(classes) < Len(DeepNames)
    /\ BasesOk(classes, bases)
    /\ classes' = Append(classes, [name |-> DeepNames[Len(classes) + 1],
                                   bases |-> bases, dict |-> clsdict])
    /\ UNCHANGED <<singletonVars, last, probeVars>>

\* getattr(K, name[, default]) on the class K that type(name, bases, clsdict)
\* makes; AttributeError when it raises, _missing when K cannot be made
getattr_constructed(cs, clsdict, bases, name, default) ==
    IF ~BasesOk(cs, bases) THEN _missing
    ELSE LET cs2 == Append(cs, [name |-> "K", bases |-> bases, dict |-> clsdict])
             v == getattr(cs2, Len(cs2), name, _missing)
         IN IF v # _missing THEN v
            ELSE IF default # _missing THEN default ELSE AttributeError

\* deep_getattr(clsdict, bases, name[, default])
DeepGetattr(clsdict, bases, name, default) ==
    /\ probe = NoProbe
    /\ probe' = [fn |-> "deep_getattr", clsdict |-> clsdict, bases |-> bases,
                 name |-> name, default |-> default,
                 result |-> deep_getattr(classes, clsdict, bases, name, default),
                 on_class |-> getattr_constructed(classes, clsdict, bases, name,
                                                  default)]
    /\ UNCHANGED <<singletonVars, metaVars, run>>

DeepNext ==
    \/ \E bases \in DeepBases, clsdict \in DeepDicts : TypeNew(bases, clsdict)
    \/ \E bases \in DeepBases, clsdict \in DeepDicts, name \in {"hi", "nope"},
          default \in {_missing, Scalar("default")} :
          DeepGetattr(clsdict, bases, name, default)

DeepSpec == Init /\ [][DeepNext]_vars

(***************************************************************************)
(* EnsureProtectedMembers: class statements with this metaclass, as in     *)
(* TestEnsureProtectedMembers.  A namespace is [keys, attrs]: keys is the  *)
(* order in which the class body binds its names.                          *)
(***************************************************************************)
\* the names a class body may bind after __module__ and __qualname__
Members == <<"_allowed_properties", "_allowed", "allowed", "should_not_be_allowed">>

\* a list of names, as a value
List(names) == [t |-> "list", s |-> "list", attrs |-> NoAttrs, keys |-> names]

\* the sequences of at most two different members
MemberOrders ==
    {<<>>} \cup {<<a>> : a \in Range(Members)}
           \cup {q \in {<<a, b>> : a \in Range(Members), b \in Range(Members)} :
                    q[1] # q[2]}

\* the namespaces of the class statements; _allowed_properties, when bound,
\* lists allowed or nothing
ProtectedNamespaces ==
    {[keys |-> <<"__module__", "__qualname__">> \o q,
      attrs |-> [k \in {"__module__", "__qualname__"} \cup Range(q) |->
                    IF k = "_allowed_properties" THEN List(l) ELSE Scalar(k)]] :
        q \in MemberOrders, l \in {<<>>, <<"allowed">>}}

\* faulty variant: the dunder names the class statement supplies are rejected too
EnsureProtectedMembers_init_no_dunder(name, bases, clsdict) ==
    LET public == SelectSeq(clsdict.keys,
                            LAMBDA attr : attr \notin {"_allowed_properties", "_allowed"})
    IN IF public = <<>> THEN NoError
       ELSE [exc |-> "NameError", cls |-> name, attrs |-> <<public[1]>>,
             msg |-> name \o "." \o public[1] \o " must be protected (rename to "
                          \o name \o "._" \o public[1] \o ")"]

\* EnsureProtectedMembers.__init__: what it raises, NoError when it returns
EnsureProtectedMembers_init(name, bases, clsdict) ==
    LET public == SelectSeq(clsdict.keys, LAMBDA attr : ~StartsWithUnderscore(attr))
    IN IF public = <<>> THEN NoError
       ELSE [exc |-> "NameError", cls |-> name, attrs |-> <<public[1]>>,
             msg |-> name \o "." \o public[1] \o " must be protected (rename to "
                          \o name \o "._" \o public[1] \o ")"]

\* class HasPublicMembers(*bases, metaclass=EnsureProtectedMembers): ...
ProtectedClassStatement(bases, clsdict) ==
    /\ probe = NoProbe
    /\ BasesOk(classes, bases)
    /\ LET name == "HasPublicMembers"
           err == EnsureProtectedMembers_init(name, bases, clsdict)
       IN /\ probe' = [fn |-> "EnsureProtectedMembers", name |-> name,
                       bases |-> bases, clsdict |-> clsdict, err |-> err]
          /\ classes' = IF err = NoError
                        THEN Append(classes, [name |-> name, bases |-> bases,
                                              dict |-> clsdict.attrs])
                        ELSE classes
    /\ UNCHANGED <<singletonVars, last, run>>

ProtectedNext ==
    \/ \E clsdict \in DeepDicts : TypeNew(<<>>, clsdict)
    \/ \E bases \in {<<>>} \cup {<<b>> : b \in 1..Len(classes)},
          clsdict \in ProtectedNamespaces : ProtectedClassStatement(bases, clsdict)

ProtectedSpec == Init /\ [][ProtectedNext]_vars

(***************************************************************************)
(* MetaOptionsFactory._contribute_to_class, one statement at a time: run   *)
(* is the call in progress, run.k the option the loop it is in is at, and  *)
(* run.hooks the options whose contribute_to_class has been called         *)
(***************************************************************************)
\* the class statements that are run step by step: the namespaces whose class
\* Meta declares at most one key
StepNamespaces ==
    {clsdict \in Namespaces : Len(DictGet(clsdict, "Meta", None).keys) <= 1}

\* faulty variant: the namespace's Meta is set to the factory after
\* _fill_from_meta, not before it
_contribute_to_class_enter_meta_late(cs, fcls, name, bases, clsdict) ==
    LET Meta == DictGet(clsdict, "Meta", None)
        d1 == DictPop(clsdict, "Meta")
    IN [pc |-> "fill", name |-> name, bases |-> bases, declared |-> clsdict,
        Meta |-> Meta,
        base_classes_meta |-> deep_getattr(cs, d1, bases, "Meta", None),
        clsdict |-> d1,
        st |-> [self |-> FactoryInstance(fcls, NoAttrs, <<>>),
                meta_attrs |-> IF Meta = None THEN <<>>
                               ELSE SelectSeq(Meta.keys,
                                              LAMBDA k : ~StartsWithUnderscore(k)),
                err |-> NoError],
        k |-> 1, hooks |-> <<>>]

\* _contribute_to_class up to the loop of _fill_from_meta: Meta is popped, the
\* Meta of the bases looked up, the factory put in the namespace, meta_attrs made
_contribute_to_class_enter(cs, fcls, name, bases, clsdict) ==
    LET Meta == DictGet(clsdict, "Meta", None)
        d1 == DictPop(clsdict, "Meta")
    IN [pc |-> "fill", name |-> name, bases |-> bases, declared |-> clsdict,
        Meta |-> Meta,
        base_classes_meta |-> deep_getattr(cs, d1, bases, "Meta", None),
        clsdict |-> DictSet(d1, "Meta", Self),
        st |-> [self |-> FactoryInstance(fcls, NoAttrs, <<>>),
                meta_attrs |-> IF Meta = None THEN <<>>
                               ELSE SelectSeq(Meta.keys,
                                              LAMBDA k : ~StartsWithUnderscore(k)),
                err |-> NoError],
        k |-> 1, hooks |-> <<>>]

\* the end of _fill_from_meta: what it raises for the keys no option took
_unknown_attributes(name, meta_attrs) ==
    IF meta_attrs # <<>>
    THEN [exc |-> "TypeError", cls |-> name, attrs |-> sorted(meta_attrs),
          msg |-> "class Meta got unknown attribute(s)"]
    ELSE NoError

\* the options of the factory of the call in progress
RunOptions == _get_meta_options(run.st.self.s)

\* YourMetaclass.__new__ calls process_factory_meta_options, which makes the
\* factory and enters its _contribute_to_class
Enter(bases, clsdict) ==
    /\ run = NoRun
    /\ Len(classes) < Len(ClassNames)
    /\ LET factory_cls == deep_getattr(classes, clsdict, bases,
                                       META_OPTIONS_FACTORY_CLASS_ATTR_NAME,
                                       FactoryClass("YourMetaOptionsFactory"))
       IN run' = _contribute_to_class_enter(classes, factory_cls.s,
                                            ClassNames[Len(classes) + 1], bases, clsdict)
    /\ UNCHANGED <<singletonVars, metaVars, probe>>

\* one iteration of the loop of _fill_from_meta
FillOption ==
    /\ run.pc = "fill"
    /\ LET st == _fill_option(run.st, RunOptions[run.k], run.Meta,
                              run.base_classes_meta, run.clsdict)
       IN run' = [run EXCEPT !.st = st,
                             !.k = IF st.err = NoError THEN @ + 1 ELSE @,
                             !.pc = IF st.err # NoError THEN "raised"
                                    ELSE IF run.k = Len(RunOptions) THEN "check"
                                    ELSE "fill"]
    /\ UNCHANGED <<singletonVars, metaVars, probe>>

\* the check of _fill_from_meta for keys that no option took
UnknownCheck ==
    /\ run.pc = "check"
    /\ LET err == _unknown_attributes(run.name, run.st.meta_attrs)
       IN run' = [run EXCEPT !.st.err = err,
                             !.k = 1,
                             !.pc = IF err # NoError THEN "raised" ELSE "contribute"]
    /\ UNCHANGED <<singletonVars, metaVars, probe>>

\* one iteration of the loop of _contribute_to_class
ContributeOption ==
    /\ run.pc = "contribute"
    /\ run.k <= Len(RunOptions)
    /\ LET option == RunOptions[run.k]
       IN run' = [run EXCEPT
                     !.clsdict = contribute_to_class(option, @,
                                     getattr_value(run.st.self, option.name, "None")),
                     !.hooks = Append(@, option.name),
                     !.k = @ + 1]
    /\ UNCHANGED <<singletonVars, metaVars, probe>>

\* _contribute_to_class returns and type.__new__ makes the class
Return ==
    /\ run.pc = "contribute"
    /\ run.k > Len(RunOptions)
    /\ classes' = Append(classes, [name |-> run.name, bases |-> run.bases,
                                   dict |-> Resolve(run.clsdict, run.st.self)])
    /\ run' = NoRun
    /\ UNCHANGED <<singletonVars, last, probe>>

\* the exception leaves the class statement: no class is made
Raise ==
    /\ run.pc = "raised"
    /\ run' = NoRun
    /\ UNCHANGED <<singletonVars, metaVars, probe>>

StepNext ==
    \/ \E bases \in BasesChoices, clsdict \in StepNamespaces : Enter(bases, clsdict)
    \/ FillOption
    \/ UnknownCheck
    \/ ContributeOption
    \/ Return
    \/ Raise

StepSpec == Init /\ [][StepNext]_vars

\* McsArgs(mcs, name, bases, clsdict).is_abstract
IsAbstract(clsdict) ==
    /\ probe' = [fn |-> "is_abstract", clsdict |-> clsdict,
                 result |-> is_abstract(clsdict)]
    /\ UNCHANGED <<singletonVars, metaVars, run>>

McsArgsNext == \E clsdict \in Namespaces : IsAbstract(clsdict)

McsArgsSpec == Init /\ [][McsArgsNext]_vars

SingletonNext ==
    \/ \E self \in SingletonClasses, cls \in SingletonClasses :
          SetSingletonClass(self, cls)
    \/ \E cls \in SingletonClasses : Call(cls)

SingletonSpec == Init /\ [][SingletonNext]_vars


(***************************************************************************)
(* Claims about the Singleton registry (checked under SingletonSpec)       *)
(***************************************************************************)
IsCall(i) == calls[i].op = "call"
IsSet(i)  == calls[i].op = "set"
Idx == 1..Len(calls)

\* C1 (as claimed): once R() has returned an instance, every later R() returns
\* that identical instance, whatever Singleton operations happen in between.
C1_SameInstanceForever ==
    \A i \in Idx, j \in Idx :
        (i < j /\ IsCall(i) /\ IsCall(j) /\ calls[i].self = calls[j].self)
            => calls[j].ret = calls[i].ret

\* C2 (as claimed): with no set_singleton_class call at all, K() gives an
\* instance of exactly K, whatever the order of instantiation; distinct classes
\* give distinct instances and a repeated K() gives K's same instance.
C2_OrderIndependent ==
    (\A i \in Idx : IsCall(i)) =>
        /\ \A i \in Idx : calls[i].ret.cls = calls[i].self
        /\ \A i \in Idx, j \in Idx :
              (calls[i].self = calls[j].self) <=> (calls[i].ret = calls[j].ret)

\* C3 (as claimed): R.set_singleton_class(C) made while no instance exists for
\* R records C for R, for every ancestor of R and for C, so that the next R()
\* is an instance of C; the warning path is taken only when an instance exists.
C3_DesignationRecorded ==
    (calls # <<>> /\ IsSet(Len(calls))) =>
        LET c == calls[Len(calls)] IN
        /\ c.warned = 1 => c.cur # NoInstance
        /\ c.cur = NoInstance =>
              /\ c.warned = 0
              /\ \A b \in Range(__mro__(c.self)) \cup {c.cls} :
                    b \in DOMAIN _classes /\ _classes[b] = c.cls
              /\ Singleton_call(Registry, c.self).ret.cls = c.cls

\* C4 (as claimed): once an instance was obtained through R,
\* R.set_singleton_class(C) emits exactly one UserWarning, leaves _classes and
\* _instances unchanged, and every later R() returns the pre-existing instance.
C4_WarnAndKeep ==
    \A i \in Idx, j \in Idx :
        (i < j /\ IsCall(i) /\ IsSet(j) /\ calls[i].self = calls[j].self) =>
            /\ calls[j].warned = 1
            /\ ~calls[j].changed
            /\ \A k \in Idx :
                  (j < k /\ IsCall(k) /\ calls[k].self = calls[j].self)
                      => calls[k].ret = calls[j].cur

\* the classes whose calls C5 speaks of: C, its singleton ancestors, and D
C5_Chain(self, cls) == (Range(__mro__(self)) \ {"object"}) \cup {cls}

C5_Scenario ==
    /\ Len(calls) >= 2
    /\ IsSet(1)
    /\ \A i \in 2..Len(calls) :
          IsCall(i) /\ calls[i].self \in C5_Chain(calls[1].self, calls[1].cls)

\* C5: after C.set_singleton_class(D) on a fresh hierarchy, the calls C(), A()
\* for every singleton ancestor A of C, and D() all return one identical
\* object, and that object is an instance of D.
C5_DesignatedShared ==
    C5_Scenario =>
        \A i \in 2..Len(calls) :
            /\ calls[i].ret.cls = calls[1].cls
            /\ calls[i].ret = calls[2].ret

C5_Witness ==
    /\ C5_Scenario
    /\ Len(calls) = 4
    /\ calls[1].self = "Second" /\ calls[1].cls = "Third"
    /\ {calls[i].self : i \in 2..4} = {"Single", "Second", "Third"}

\* C6: every concrete class is constructed at most once, and an _instances
\* entry, once set, is never replaced or removed: every object a call has ever
\* returned is still the cached instance of its class.
C6_AtMostOneInstance ==
    /\ \A k \in SingletonClasses : constructed[k] <= 1
    /\ \A i \in Idx :
          IsCall(i) =>
              /\ calls[i].ret.cls \in DOMAIN _instances
              /\ _instances[calls[i].ret.cls] = calls[i].ret

C6_Witness ==
    \E i \in Idx, j \in Idx, s \in Idx :
        /\ i < s /\ s < j
        /\ IsCall(i) /\ IsSet(s) /\ IsCall(j)
        /\ calls[i].self # calls[j].self
        /\ calls[i].ret = calls[j].ret


(***************************************************************************)
(* Claims about the class Meta options (checked under MetaSpec)            *)
(***************************************************************************)
\* the latest class statement succeeded: its class is the last of classes
Built == last # Idle /\ last.built

DeclaredMeta == IF "Meta" \in DOMAIN last.declared THEN last.declared["Meta"].attrs
                ELSE NoAttrs

LastOptions == _get_meta_options(last.self.s)

LastMro == Mro(classes, Len(classes))

\* every class of the chain was built with the schema of the latest class
SameSchema ==
    \A i \in 1..Len(LastMro) : classes[LastMro[i]].dict["Meta"].s = last.self.s

\* the resolved factory of the nearest ancestor, None without ancestor
NearestAncestorMeta ==
    IF Len(LastMro) >= 2 THEN classes[LastMro[2]].dict["Meta"] ELSE None

C7_Expected(o) ==
    IF o.name \in DOMAIN DeclaredMeta THEN DeclaredMeta[o.name]
    ELSE IF /\ o.inherit
            /\ NearestAncestorMeta # None
            /\ o.name \in DOMAIN NearestAncestorMeta.attrs
         THEN NearestAncestorMeta.attrs[o.name]
         ELSE o.default

OptionNames(fcls) == {_get_meta_options(fcls)[i].name : i \in 1..Len(_get_meta_options(fcls))}

\* the keys of the declared Meta that no option of the schema matches
UnknownKeys == DOMAIN DeclaredMeta \ OptionNames(last.self.s)

UnknownPublicKeys == {k \in UnknownKeys : ~StartsWithUnderscore(k)}

InOrder(keys) == SelectSeq(Alphabet, LAMBDA k : k \in keys)

\* C8 (as claimed): a Meta with a key that matches no option always fails with
\* a TypeError that names the class and lists every unknown key, sorted, once.
C8_UnknownKeysRejected ==
    (last # Idle /\ UnknownKeys # {}) =>
        /\ last.err.exc = "TypeError"
        /\ last.err.cls = last.name
        /\ last.err.attrs = InOrder(UnknownKeys)

\* C8 (amended): a Meta with a key that does not start with "_" and matches no
\* option fails with a TypeError that names the class and lists exactly those
\* keys, sorted, once each; keys starting with "_" are ignored.
C8_UnknownPublicKeysRejected ==
    (last # Idle /\ UnknownPublicKeys # {}) =>
        /\ ~last.built
        /\ last.err.exc = "TypeError"
        /\ last.err.cls = last.name
        /\ last.err.attrs = InOrder(UnknownPublicKeys)

C8_Witness ==
    /\ last # Idle
    /\ Cardinality(UnknownPublicKeys) = 2
    /\ last.err.exc = "TypeError"
    /\ Len(last.err.attrs) = 2

\* C9: after process_factory_meta_options returns, the namespace's Meta is the
\* populated factory instance itself (no longer the declared class Meta), and
\* the factory has a value for every option of its schema but "_".
C9_MetaIsFactory ==
    Built =>
        /\ "Meta" \in DOMAIN last.clsdict
        /\ last.clsdict["Meta"] = last.self
        /\ last.self.t = "factory"
        /\ classes[Len(classes)].dict["Meta"] = last.self
        /\ \A i \in 1..Len(LastOptions) :
              LastOptions[i].name # "_" =>
                  LastOptions[i].name \in DOMAIN last.self.attrs

C9_Witness ==
    /\ Built
    /\ "Meta" \in DOMAIN last.declared
    /\ DOMAIN DeclaredMeta # {}
    /\ last.self.s = "FooMetaOptionsFactory"
    /\ "_" \notin DOMAIN last.self.attrs

\* C10 (as claimed): when the namespace declares __abstract__, that flag alone
\* decides the resolved abstract value whatever the Meta says; and after the
\* contribution the namespace's __abstract__ is the resolved boolean.
C10_FlagWins ==
    Built =>
        /\ ABSTRACT_ATTR \in DOMAIN last.declared =>
              last.self.attrs["abstract"] = IsTrue(last.declared[ABSTRACT_ATTR].s)
        /\ last.clsdict[ABSTRACT_ATTR] = Scalar(last.self.attrs["abstract"])


(***************************************************************************)
(* Claims about McsArgs.is_abstract (checked under McsArgsSpec)            *)
(***************************************************************************)
IsAbstractCalled == probe.fn = "is_abstract"

ProbeFlag == probe.clsdict[ABSTRACT_ATTR].s

HasFlag == ABSTRACT_ATTR \in DOMAIN probe.clsdict

\* whether the probed namespace has a class Meta whose abstract is exactly True
MetaSaysAbstract ==
    /\ "Meta" \in DOMAIN probe.clsdict
    /\ "abstract" \in DOMAIN probe.clsdict["Meta"].attrs
    /\ probe.clsdict["Meta"].attrs["abstract"] = "True"

DeepCalled == probe.fn = "deep_getattr"

\* the classes of the __mro__ of class k that define name themselves
Definers(k, name) ==
    LET mro == Mro(classes, k)
    IN {i \in 1..Len(mro) : name \in DOMAIN classes[mro[i]].dict}

\* the value class k has for name, which it has when Definers is not empty
ValueOn(k, name) ==
    LET mro == Mro(classes, k)
        i == CHOOSE x \in Definers(k, name) : \A y \in Definers(k, name) : x <= y
    IN classes[mro[i]].dict[name]

\* the positions in the given bases of the bases that have name
BasesWith(bases, name) == {i \in 1..Len(bases) : Definers(bases[i], name) # {}}

C13_SameAsGetattr ==
    (DeepCalled /\ probe.on_class # _missing) => probe.result = probe.on_class

(***************************************************************************)
(* Claims about EnsureProtectedMembers (checked under ProtectedSpec)       *)
(***************************************************************************)
ProtectedCalled == probe.fn = "EnsureProtectedMembers"

\* the names of the statement's own namespace that do not start with '_'
PublicNames == {k \in Range(probe.clsdict.keys) : ~StartsWithUnderscore(k)}

\* the names the statement's _allowed_properties lists
AllowedProperties ==
    IF "_allowed_properties" \in DOMAIN probe.clsdict.attrs
    THEN Range(probe.clsdict.attrs["_allowed_properties"].keys) ELSE {}

\* the names some base of the statement has
BaseNames ==
    UNION {UNION {DOMAIN classes[c].dict : c \in Range(Mro(classes, b))} :
              b \in Range(probe.bases)}

MustBeProtected(cls, attr) ==
    cls \o "." \o attr \o " must be protected (rename to " \o cls \o "._" \o attr \o ")"

C15_AllowedPropertiesAccepted ==
    ProtectedCalled =>
        (probe.err.exc = "NameError" <=> PublicNames \ AllowedProperties # {})

(***************************************************************************)
(* Claims about the order of the steps of _contribute_to_class (checked    *)
(* under StepSpec)                                                         *)
(***************************************************************************)
Running == run.pc # "idle"

\* the names of the first n options, in declaration order
NamesOf(n) == [j \in 1..n |-> RunOptions[j].name]

\* the names under which the first n options are stored: "_" stores nothing
StoredNames(n) == SelectSeq(NamesOf(n), LAMBDA name : name # "_")

\* the value option j resolves to in the call in progress
ResolvedValue(j) ==
    get_value(RunOptions[j], run.Meta, run.base_classes_meta, run.clsdict)

\* the factory holds the resolved and validated values of the first n options
\* and of no other
CarriesFirst(n) ==
    /\ run.st.self.keys = StoredNames(n)
    /\ DOMAIN run.st.self.attrs = Range(StoredNames(n))
    /\ \A j \in 1..n :
          /\ check_value(RunOptions[j], ResolvedValue(j)) = "None"
          /\ RunOptions[j].name # "_" =>
                run.st.self.attrs[RunOptions[j].name] = ResolvedValue(j)

\* the step by step run ends as the call taken as a whole does
StepsAgreeWithCall ==
    Running =>
        LET whole == _contribute_to_class(classes, run.st.self.s, run.name,
                                          run.bases, run.declared)
        IN /\ run.pc = "raised" => whole.err = run.st.err
           /\ (run.pc = "contribute" /\ run.k > Len(RunOptions)) =>
                 /\ whole.err = NoError
                 /\ whole.clsdict = Resolve(run.clsdict, run.st.self)

\* C16: the options are resolved, validated and stored in declaration order:
\* when get_value and check_value of option k run, the namespace's Meta is
\* already the factory and the factory holds the values of exactly the options
\* declared before k (an option named "_" stores nothing); the
\* contribute_to_class hooks run in declaration order, and only after every
\* option is stored and the check for unknown keys has passed; when the
\* resolution fails no hook has run.
C16_DeclarationOrder ==
    Running =>
        /\ run.pc = "fill" =>
              /\ run.k \in 1..Len(RunOptions)
              /\ DictGet(run.clsdict, "Meta", None) = Self
              /\ CarriesFirst(run.k - 1)
        /\ run.pc \in {"fill", "check", "raised"} => run.hooks = <<>>
        /\ run.hooks # <<>> =>
              /\ run.pc = "contribute"
              /\ run.st.err = NoError
              /\ run.st.meta_attrs = <<>>
              /\ CarriesFirst(Len(RunOptions))
              /\ run.hooks = NamesOf(run.k - 1)

\* every hook of a FooMetaOptionsFactory has run, for a class with a class
\* Meta and a base class that has a Meta
C16_Witness ==
    /\ Running
    /\ run.pc = "contribute"
    /\ run.st.self.s = "FooMetaOptionsFactory"
    /\ run.hooks = NamesOf(Len(RunOptions))
    /\ run.Meta # None
    /\ run.base_classes_meta # None

=============================================================================
